---- MODULE Spec2Model ----
(***************************************************************************)
(* Model of the /upload command (src/commands/upload.ts): option reading   *)
(* and validation, the confirmation prompt with its component collector,   *)
(* the download / ffmpeg / publish / site-submission pipeline and the      *)
(* deletion of the temporary files.                                        *)
(*                                                                         *)
(* Strings whose characters matter (attachment names, the tag string) are  *)
(* sequences of one-character strings.                                     *)
(***************************************************************************)
EXTENDS Integers, Sequences, FiniteSets, TLC

VARIABLES st, fs, cfg

vars == <<st, fs, cfg>>

(* ------------------------------ bounds --------------------------------- *)

\* longest tag string explored by SpecTags
MaxTagLen == 4
\* longest tag string given to a full pipeline run
MaxRunTagLen == 1
\* component interactions of the requester collected by one collector
MaxEvents == 2
\* component interactions of other users delivered to one collector
MaxOther == 1

(* ------------------------------ inputs --------------------------------- *)

Runs == {1, 2}

Users == {"alice", "bob"}

TagChars == {"a", ",", " "}

RECURSIVE SeqsUpTo(_, _)
SeqsUpTo(S, n) ==
    IF n = 0 THEN {<<>>}
    ELSE LET shorter == SeqsUpTo(S, n - 1)
         IN  shorter \cup {Append(s, c) : s \in {t \in shorter : Len(t) = n - 1}, c \in S}

TagStrings == SeqsUpTo(TagChars, MaxTagLen)

RunTagStrings == SeqsUpTo(TagChars, MaxRunTagLen)

Mp3 == <<".", "m", "p", "3">>
Wav == <<".", "w", "a", "v">>
Png == <<".", "p", "n", "g">>
Jpg == <<".", "j", "p", "g">>
Ogg == <<".", "o", "g", "g">>
Gif == <<".", "g", "i", "f">>

\* getAttachment() returns null or an attachment with a name and a url
NullAttachment == [isNull |-> TRUE, name |-> <<>>, url |-> "none"]

Attachment(name, url) == [isNull |-> FALSE, name |-> name, url |-> url]

AudioInputs ==
    {NullAttachment} \cup
    {Attachment(<<"s">> \o e, "audioUrl") : e \in {Mp3, Wav, Ogg}} \cup
    {Attachment(<<"m", "p", "3">>, "audioUrl")}

ImageInputs ==
    {NullAttachment} \cup
    {Attachment(<<"c">> \o e, "imageUrl") : e \in {Png, Jpg, Gif}}

\* getString("title") returns null or the string
NullString == "<null>"

TitleInputs == {NullString, "Test Song"}

(* --------------------------- pure functions ---------------------------- *)

\* String.prototype.endsWith
endsWith(s, suffix) ==
    /\ Len(s) >= Len(suffix)
    /\ SubSeq(s, Len(s) - Len(suffix) + 1, Len(s)) = suffix

\* String.prototype.split(",") : the pieces between the commas, empty ones kept
RECURSIVE split(_)
split(s) ==
    IF \A i \in 1..Len(s) : s[i] # ","
    THEN <<s>>
    ELSE LET k == CHOOSE i \in 1..Len(s) :
                      s[i] = "," /\ \A j \in 1..(i - 1) : s[j] # ","
         IN  <<SubSeq(s, 1, k - 1)>> \o split(SubSeq(s, k + 1, Len(s)))

\* String.prototype.trim
RECURSIVE trim(_)
trim(s) ==
    IF s = <<>> THEN s
    ELSE IF Head(s) = " " THEN trim(Tail(s))
    ELSE IF s[Len(s)] = " " THEN trim(SubSeq(s, 1, Len(s) - 1))
    ELSE s

\* const tags = tagsString.length === 0 ? [] : tagsString.split(",").map(trim)
parseTags(tagsString) ==
    IF Len(tagsString) = 0 THEN <<>>
    ELSE LET parts == split(tagsString)
         IN  [i \in 1..Len(parts) |-> trim(parts[i])]

(* ------------------------------- state --------------------------------- *)

\* The local variables of one invocation of command.run, and what the
\* invocation has done so far to the outside world.
NewRun(user, sendable, audio, image, title, tagsString) ==
    [ pc            |-> "start",
      user          |-> user,           \* interaction.user.id
      sendable      |-> sendable,       \* interaction.channel?.isSendable()
      audio         |-> audio,
      image         |-> image,
      title         |-> title,
      tagsString    |-> tagsString,
      tags          |-> <<>>,
      reports       |-> {},             \* messages sent to the requester
      promptSent    |-> FALSE,          \* update = await channel.send(...)
      promptDeleted |-> FALSE,          \* an update.delete() has succeeded
      deleteCalls   |-> 0,              \* update.delete() calls issued
      collector     |-> "none",         \* confirmationCollector
      timeout       |-> TRUE,           \* let timeout
      handlers      |-> <<>>,           \* invocations of the "collect" listener
      othersSeen    |-> 0,              \* interactions the filter dropped
      resolved      |-> FALSE,          \* the promise behind `result`
      result        |-> FALSE,
      mkdirDone     |-> FALSE,          \* mkdir(".tmp") was called
      audioDl       |-> "none",         \* how fetch(audio.url) ended
      imageDl       |-> "none",
      written       |-> {},             \* temporary files this run created
      err           |-> FALSE,          \* err given to the exec callback
      encoderCalls  |-> 0,
      ytCalls       |-> 0,
      scCalls       |-> 0,
      ytTagsLine    |-> <<>>,           \* "Tags: ..." line given to YouTube
      scTagsLine    |-> <<>>,           \* "Tags: ..." line given to SoundCloud
      youtubeUrl    |-> "unset",        \* let youtubeUrl
      soundcloudUrl |-> "unset",        \* let soundcloudUrl
      urls          |-> "unset",        \* let urls
      feed          |-> "none",         \* the feed-channel promise chain
      feedCalls     |-> 0,
      form          |-> [hasTags |-> FALSE, tags |-> <<>>, title |-> "",
                          youtubeUrl |-> "", soundcloudUrl |-> "",
                          track |-> <<>>, cover |-> <<>>],   \* const formData
      siteCalls     |-> 0,
      siteBody      |-> [hasTags |-> FALSE, tags |-> <<>>, title |-> "",
                          youtubeUrl |-> "", soundcloudUrl |-> "",
                          track |-> <<>>, cover |-> <<>>],   \* body POSTed to the site
      reportedUrls  |-> <<>>,           \* urls in the final answer
      cleanupCalls  |-> 0,              \* deleteTemporaryFiles() calls
      unlinked      |-> {} ]            \* paths given to unlink

\* an invocation that never happens
NoRun ==
    [NewRun("alice", FALSE, NullAttachment, NullAttachment, NullString, <<>>)
        EXCEPT !.pc = "off"]

ConfigInputs == [canUseYoutube : BOOLEAN, canUseSoundcloud : BOOLEAN]

\* one invocation by alice, with any options and any configuration
Init ==
    /\ \E sendable \in BOOLEAN, audio \in AudioInputs, image \in ImageInputs,
          title \in TitleInputs, tagsString \in RunTagStrings :
          st = [r \in Runs |->
                  IF r = 1
                  THEN NewRun("alice", sendable, audio, image, title, tagsString)
                  ELSE NoRun]
    /\ fs = {}
    /\ cfg \in ConfigInputs

Upd(r, s) == st' = [st EXCEPT ![r] = s]

Report(s, msg) == [s EXCEPT !.reports = @ \cup {msg}]

(* ----------------------- options and validation ------------------------ *)

\* lines 96-102: deferReply, then the channel check
Begin(r) ==
    /\ st[r].pc = "start"
    /\ IF ~st[r].sendable
       THEN Upd(r, [Report(st[r], "cannotSend") EXCEPT !.pc = "done"])
       ELSE Upd(r, [st[r] EXCEPT !.pc = "options"])
    /\ UNCHANGED <<fs, cfg>>

\* lines 104-109: read the options and parse the tags
ReadOptions(r) ==
    /\ st[r].pc = "options"
    /\ Upd(r, [st[r] EXCEPT !.tags = parseTags(st[r].tagsString),
                            !.pc = "validate"])
    /\ UNCHANGED <<fs, cfg>>

\* validate as it would be without the image extension check
validateNoImageCheck(audio, image, title) ==
    IF audio.isNull \/ image.isNull \/ title = NullString
    THEN "missingOption"
    ELSE IF ~endsWith(audio.name, Mp3) /\ ~endsWith(audio.name, Wav)
    THEN "badAudio"
    ELSE "ok"

\* lines 111-126: the message of the first failing check, or "ok"
validate(audio, image, title) ==
    IF audio.isNull \/ image.isNull \/ title = NullString
    THEN "missingOption"
    ELSE IF ~endsWith(audio.name, Mp3) /\ ~endsWith(audio.name, Wav)
    THEN "badAudio"
    ELSE IF ~endsWith(image.name, Png) /\ ~endsWith(image.name, Jpg)
    THEN "badImage"
    ELSE "ok"

Validate(r) ==
    /\ st[r].pc = "validate"
    /\ LET v == validate(st[r].audio, st[r].image, st[r].title)
       IN  IF v # "ok"
           THEN Upd(r, [Report(st[r], v) EXCEPT !.pc = "done"])
           ELSE Upd(r, [st[r] EXCEPT !.pc = "prompt"])
    /\ UNCHANGED <<fs, cfg>>

(* -------------------------- confirmation gate -------------------------- *)

\* lines 129-153: send the prompt, create the collector, let timeout = true
SendPrompt(r) ==
    /\ st[r].pc = "prompt"
    /\ Upd(r, [st[r] EXCEPT !.promptSent = TRUE,
                            !.collector = "active",
                            !.timeout = TRUE,
                            !.pc = "confirming"])
    /\ UNCHANGED <<fs, cfg>>

\* filter as it would be without the identity test
filterAnyone(iUser, requester) == TRUE

\* line 151: const filter = i => i.user.id === interaction.user.id
filter(iUser, requester) == iUser = requester

\* resolve as it would be if every call settled the result again
resolveLastWins(s, v) == [s EXCEPT !.resolved = TRUE, !.result = v]

\* resolve() of the promise of line 150: only the first call settles it
resolve(s, v) ==
    IF s.resolved THEN s
    ELSE [s EXCEPT !.resolved = TRUE, !.result = v]

\* the "end" listener as it would be without the timeout flag
onEndAlways(s) == resolve(Report(s, "tookTooLong"), FALSE)

\* lines 166-171: the "end" listener
onEnd(s) ==
    IF s.timeout
    THEN resolve(Report(s, "tookTooLong"), FALSE)
    ELSE s

\* confirmationCollector.stop(): ends a running collector, which emits "end"
stop(s) ==
    IF s.collector = "active"
    THEN onEnd([s EXCEPT !.collector = "ended"])
    ELSE s

\* lines 154-157 / 160-161: an interaction on the prompt reaches the collector;
\* when the filter passes it the "collect" listener starts, clears the flag
\* and calls update.delete()
Collect(r, iUser, customId) ==
    /\ st[r].collector = "active"
    /\ IF filter(iUser, st[r].user)
       THEN /\ Len(st[r].handlers) < MaxEvents
            /\ Upd(r, [st[r] EXCEPT
                   !.timeout = FALSE,
                   !.deleteCalls = @ + 1,
                   !.handlers = Append(@, [user |-> iUser,
                                           customId |-> customId,
                                           pos |-> "deleting"])])
       ELSE /\ st[r].othersSeen < MaxOther
            /\ Upd(r, [st[r] EXCEPT !.othersSeen = @ + 1])
    /\ UNCHANGED <<fs, cfg>>

\* lines 157-159 / 161-163: the awaited update.delete() settles; when it
\* succeeded the listener stops the collector and resolves, when it failed
\* the listener's promise rejects and the rest of it never runs
DeleteSettles(r, h, ok) ==
    /\ h \in 1..Len(st[r].handlers)
    /\ st[r].handlers[h].pos = "deleting"
    /\ IF ok
       THEN LET s1 == [st[r] EXCEPT !.promptDeleted = TRUE,
                                    !.handlers[h].pos = "done"]
            IN  Upd(r, resolve(stop(s1), st[r].handlers[h].customId = "yes"))
       ELSE Upd(r, [st[r] EXCEPT !.handlers[h].pos = "failed"])
    /\ UNCHANGED <<fs, cfg>>

\* time: 60000 : the collector's timer ends it and "end" is emitted
Expire(r) ==
    /\ st[r].collector = "active"
    /\ Upd(r, onEnd([st[r] EXCEPT !.collector = "ended"]))
    /\ UNCHANGED <<fs, cfg>>

\* what the gate has decided, as the caller and the requester can tell
Decision(s) ==
    IF ~s.resolved THEN "Pending"
    ELSE IF s.result THEN "Confirmed"
    ELSE IF "tookTooLong" \in s.reports THEN "TimedOut"
    ELSE "Declined"

(* ------------------------------ pipeline ------------------------------- *)

\* the cancellation test as it would be if only `result === undefined` cancelled
cancelledNever(result) == FALSE

\* line 174: if (!result)
cancelled(result) == ~result

\* lines 174-179: the promise has resolved; cancel, or mkdir and go on
AfterConfirm(r) ==
    /\ st[r].pc = "confirming"
    /\ st[r].resolved
    /\ IF cancelled(st[r].result)
       THEN Upd(r, [Report(st[r], "Cancelled") EXCEPT !.pc = "done"])
       ELSE Upd(r, [st[r] EXCEPT !.mkdirDone = TRUE, !.pc = "downloadAudio"])
    /\ UNCHANGED <<fs, cfg>>

\* createHash("sha256").update(url).digest("hex") : distinct urls, distinct digests
sha256(url) == <<"sha256", url>>

\* line 182
audioPath(s) ==
    <<".tmp", sha256(s.audio.url), IF endsWith(s.audio.name, Mp3) THEN ".mp3" ELSE ".wav">>

\* line 183
imagePath(s) ==
    <<".tmp", sha256(s.image.url), IF endsWith(s.image.name, Png) THEN ".png" ELSE ".jpg">>

\* line 197
videoPath(s) == <<".tmp", <<"id", s.user>>, ".mp4">>

\* fetch() resolves for every HTTP status and rejects on a network failure
FetchOutcomes == {"ok", "http_error", "network_error"}

\* lines 184-186: fetch(url).then(res => res.blob()).then(writeFile): the body of
\* whatever response arrived is written; a rejected fetch makes run() throw
DownloadAudio(r, outcome) ==
    /\ st[r].pc = "downloadAudio"
    /\ IF outcome = "network_error"
       THEN /\ Upd(r, [st[r] EXCEPT !.audioDl = outcome, !.pc = "threw"])
            /\ UNCHANGED fs
       ELSE /\ Upd(r, [st[r] EXCEPT !.audioDl = outcome,
                                    !.written = @ \cup {audioPath(st[r])},
                                    !.pc = "downloadImage"])
            /\ fs' = fs \cup {audioPath(st[r])}
    /\ UNCHANGED cfg

\* lines 187-189
DownloadImage(r, outcome) ==
    /\ st[r].pc = "downloadImage"
    /\ IF outcome = "network_error"
       THEN /\ Upd(r, [st[r] EXCEPT !.imageDl = outcome, !.pc = "threw"])
            /\ UNCHANGED fs
       ELSE /\ Upd(r, [st[r] EXCEPT !.imageDl = outcome,
                                    !.written = @ \cup {imagePath(st[r])},
                                    !.pc = "exec"])
            /\ fs' = fs \cup {imagePath(st[r])}
    /\ UNCHANGED cfg

\* Exec as it would be if exec were called whatever canUseYoutube says
ExecAlwaysFfmpeg(r, ffmpegOk, leftFile) ==
    /\ st[r].pc = "exec"
    /\ ffmpegOk => {audioPath(st[r]), imagePath(st[r])} \subseteq fs
    /\ IF ffmpegOk \/ leftFile
       THEN /\ Upd(r, [st[r] EXCEPT !.encoderCalls = @ + 1,
                                    !.err = ~ffmpegOk,
                                    !.written = @ \cup {videoPath(st[r])},
                                    !.pc = "callback"])
            /\ fs' = fs \cup {videoPath(st[r])}
       ELSE /\ Upd(r, [st[r] EXCEPT !.encoderCalls = @ + 1,
                                    !.err = TRUE,
                                    !.pc = "callback"])
            /\ UNCHANGED fs
    /\ UNCHANGED cfg

\* lines 191-198: (canUseYoutube ? exec : fakeExec)(ffmpeg ..., callback).
\* fakeExec calls back with no error and runs nothing; ffmpeg ends with or
\* without an error, and a failed ffmpeg may leave its output file behind
Exec(r, ffmpegOk, leftFile) ==
    /\ st[r].pc = "exec"
    \* ffmpeg cannot succeed without its two input files
    /\ ffmpegOk => {audioPath(st[r]), imagePath(st[r])} \subseteq fs
    /\ IF cfg.canUseYoutube
       THEN IF ffmpegOk \/ leftFile
            THEN /\ Upd(r, [st[r] EXCEPT !.encoderCalls = @ + 1,
                                         !.err = ~ffmpegOk,
                                         !.written = @ \cup {videoPath(st[r])},
                                         !.pc = "callback"])
                 /\ fs' = fs \cup {videoPath(st[r])}
            ELSE /\ Upd(r, [st[r] EXCEPT !.encoderCalls = @ + 1,
                                         !.err = TRUE,
                                         !.pc = "callback"])
                 /\ UNCHANGED fs
       ELSE /\ Upd(r, [st[r] EXCEPT !.err = FALSE, !.pc = "callback"])
            /\ UNCHANGED fs
    /\ UNCHANGED cfg

\* Callback as it would be without the return of line 204
CallbackNoReturn(r) ==
    /\ st[r].pc = "callback"
    /\ IF st[r].err
       THEN Upd(r, [Report(st[r], "processingError") EXCEPT !.pc = "youtube"])
       ELSE Upd(r, [st[r] EXCEPT !.pc = "youtube"])
    /\ UNCHANGED <<fs, cfg>>

\* lines 199-205: the callback reports an encoder error and returns
Callback(r) ==
    /\ st[r].pc = "callback"
    /\ IF st[r].err
       THEN Upd(r, [Report(st[r], "processingError") EXCEPT !.pc = "done"])
       ELSE Upd(r, [st[r] EXCEPT !.pc = "youtube"])
    /\ UNCHANGED <<fs, cfg>>

Placeholder == "https://example.com/"

YoutubeOutcomes == {"uploaded", "rejected", "throws"}

\* Array.prototype.join
RECURSIVE join(_, _)
join(list, sep) ==
    IF list = <<>> THEN <<>>
    ELSE IF Len(list) = 1 THEN list[1]
    ELSE list[1] \o sep \o join(Tail(list), sep)

CommaSpace == <<",", " ">>

NotApplicable == <<"N", "/", "A">>

\* line 28: tags.length > 0 ? tags.join(", ") : "N/A"
youtubeTagsLine(tags) ==
    IF Len(tags) > 0 THEN join(tags, CommaSpace) ELSE NotApplicable

\* line 41: tags ? tags.join(", ") : "N/A" ; an array, empty or not, is truthy
soundcloudTagsLine(tags) == join(tags, CommaSpace)

\* UploadYoutube as it would be without the return of line 34
UploadYoutubeNoReturn(r, outcome) ==
    /\ st[r].pc = "youtube"
    /\ (cfg.canUseYoutube /\ videoPath(st[r]) \notin fs) => outcome = "throws"
    /\ LET s0 == [st[r] EXCEPT !.soundcloudUrl = Placeholder,
                               !.youtubeUrl = Placeholder]
       IN  IF ~cfg.canUseYoutube
           THEN Upd(r, [s0 EXCEPT !.pc = "soundcloud"])
           ELSE LET s1 == [s0 EXCEPT !.ytCalls = @ + 1,
                                     !.ytTagsLine = youtubeTagsLine(st[r].tags)]
                IN  CASE outcome = "uploaded" ->
                           Upd(r, [s1 EXCEPT !.youtubeUrl = "youtube.com/watch",
                                             !.pc = "soundcloud"])
                      [] outcome = "rejected" ->
                           Upd(r, [Report(s1, "videoRejected") EXCEPT
                                             !.pc = "soundcloud"])
                      [] outcome = "throws" ->
                           Upd(r, [Report(s1, "uploadThrew") EXCEPT !.pc = "done"])
    /\ UNCHANGED <<fs, cfg>>

\* lines 23-37 and the catch of lines 211-217
UploadYoutube(r, outcome) ==
    /\ st[r].pc = "youtube"
    \* the upload reads videoPath and throws when it is not there
    /\ (cfg.canUseYoutube /\ videoPath(st[r]) \notin fs) => outcome = "throws"
    /\ LET s0 == [st[r] EXCEPT !.soundcloudUrl = Placeholder,
                               !.youtubeUrl = Placeholder]
       IN  IF ~cfg.canUseYoutube
           THEN Upd(r, [s0 EXCEPT !.pc = "soundcloud"])
           ELSE LET s1 == [s0 EXCEPT !.ytCalls = @ + 1,
                                     !.ytTagsLine = youtubeTagsLine(st[r].tags)]
                IN  CASE outcome = "uploaded" ->
                           Upd(r, [s1 EXCEPT !.youtubeUrl = "youtube.com/watch",
                                             !.pc = "soundcloud"])
                      [] outcome = "rejected" ->
                           Upd(r, [Report(s1, "videoRejected") EXCEPT
                                             !.urls = "undefined",
                                             !.pc = "afterPublish"])
                      [] outcome = "throws" ->
                           Upd(r, [Report(s1, "uploadThrew") EXCEPT !.pc = "done"])
    /\ UNCHANGED <<fs, cfg>>

\* lines 39-57 and the catch of lines 211-217: the SoundCloud upload, then the
\* feed message is started without being awaited and the urls are returned
UploadSoundcloud(r, ok) ==
    /\ st[r].pc = "soundcloud"
    \* the upload reads audioPath and imagePath and throws when one is not there
    /\ (cfg.canUseSoundcloud /\ ~({audioPath(st[r]), imagePath(st[r])} \subseteq fs))
           => ~ok
    /\ LET s1 == IF cfg.canUseSoundcloud
                 THEN [st[r] EXCEPT !.scCalls = @ + 1,
                                    !.scTagsLine = soundcloudTagsLine(st[r].tags),
                                    !.soundcloudUrl = "soundcloud.com/track"]
                 ELSE st[r]
       IN  IF cfg.canUseSoundcloud /\ ~ok
           THEN Upd(r, [Report(st[r], "uploadThrew") EXCEPT
                           !.scCalls = @ + 1,
                           !.scTagsLine = soundcloudTagsLine(st[r].tags),
                           !.pc = "done"])
           ELSE Upd(r, [s1 EXCEPT !.feed = "pending",
                                  !.feedCalls = @ + 1,
                                  !.urls = "set",
                                  !.pc = "afterPublish"])
    /\ UNCHANGED <<fs, cfg>>

\* FeedSettles as it would be if the feed message were awaited without a catch:
\* its failure would be reported as an upload error and end the run
FeedSettlesFatal(r, ok) ==
    /\ st[r].feed = "pending"
    /\ IF ok
       THEN Upd(r, [st[r] EXCEPT !.feed = "sent"])
       ELSE Upd(r, [Report(st[r], "uploadThrew") EXCEPT
                       !.feed = "failed",
                       !.pc = IF @ \in {"done", "threw"} THEN @ ELSE "done"])
    /\ UNCHANGED <<fs, cfg>>

\* lines 45-52: the feed promise chain settles; a failure is only logged
FeedSettles(r, ok) ==
    /\ st[r].feed = "pending"
    /\ Upd(r, [st[r] EXCEPT !.feed = IF ok THEN "sent" ELSE "failed"])
    /\ UNCHANGED <<fs, cfg>>

\* lines 220-224: the paths deleteTemporaryFiles gives to unlink
temporaryFiles(s) ==
    (IF cfg.canUseYoutube THEN {videoPath(s)} ELSE {})
        \cup {audioPath(s), imagePath(s)}

\* one call of deleteTemporaryFiles; unlink failures are swallowed by allSettled
deleteTemporaryFiles(r, s) ==
    /\ Upd(r, [s EXCEPT !.cleanupCalls = @ + 1,
                        !.unlinked = @ \cup temporaryFiles(s)])
    /\ fs' = fs \ temporaryFiles(s)

\* AfterPublish as it would be if the files were deleted as soon as the
\* uploads are over
AfterPublishEagerDelete(r) ==
    /\ st[r].pc = "afterPublish"
    /\ deleteTemporaryFiles(r, [st[r] EXCEPT
           !.pc = IF st[r].urls = "undefined" THEN "done" ELSE "form"])
    /\ UNCHANGED cfg

\* lines 219-229
AfterPublish(r) ==
    /\ st[r].pc = "afterPublish"
    /\ IF st[r].urls = "undefined"
       THEN deleteTemporaryFiles(r, [st[r] EXCEPT !.pc = "done"])
       ELSE /\ Upd(r, [st[r] EXCEPT !.pc = "form"])
            /\ UNCHANGED fs
    /\ UNCHANGED cfg

\* formData as it would be if the parsed tags were sent, joined again
formDataJoinedTags(s) ==
    [ title         |-> s.title,
      soundcloudUrl |-> s.soundcloudUrl,
      youtubeUrl    |-> s.youtubeUrl,
      track         |-> audioPath(s),
      cover         |-> imagePath(s),
      hasTags       |-> Len(s.tags) > 0,
      tags          |-> join(s.tags, CommaSpace) ]

\* lines 231-239: the fields of the multipart body; "tags" only for a
\* non-empty tagsString
formData(s) ==
    [ title         |-> s.title,
      soundcloudUrl |-> s.soundcloudUrl,
      youtubeUrl    |-> s.youtubeUrl,
      track         |-> audioPath(s),
      cover         |-> imagePath(s),
      hasTags       |-> s.tagsString # <<>>,
      tags          |-> IF s.tagsString # <<>> THEN s.tagsString ELSE <<>> ]

\* lines 231-239: openAsBlob throws when the file is not there
BuildForm(r) ==
    /\ st[r].pc = "form"
    /\ IF {audioPath(st[r]), imagePath(st[r])} \subseteq fs
       THEN Upd(r, [st[r] EXCEPT !.form = formData(st[r]), !.pc = "submit"])
       ELSE Upd(r, [st[r] EXCEPT !.pc = "threw"])
    /\ UNCHANGED <<fs, cfg>>

\* Submit as it would be if a failed submission ended the callback
SubmitFailureReturns(r, ok) ==
    /\ st[r].pc = "submit"
    /\ Upd(r, [Report(st[r], IF ok THEN "uploaded" ELSE "siteError") EXCEPT
                   !.siteCalls = @ + 1,
                   !.siteBody = st[r].form,
                   !.reportedUrls = IF ok
                                    THEN <<st[r].youtubeUrl, st[r].soundcloudUrl>>
                                    ELSE @,
                   !.pc = IF ok THEN "cleanup" ELSE "done"])
    /\ UNCHANGED <<fs, cfg>>

\* lines 241-243: the site submission and the report of its outcome
Submit(r, ok) ==
    /\ st[r].pc = "submit"
    /\ Upd(r, [Report(st[r], IF ok THEN "uploaded" ELSE "siteError") EXCEPT
                   !.siteCalls = @ + 1,
                   !.siteBody = st[r].form,
                   !.reportedUrls = IF ok
                                    THEN <<st[r].youtubeUrl, st[r].soundcloudUrl>>
                                    ELSE @,
                   !.pc = "cleanup"])
    /\ UNCHANGED <<fs, cfg>>

\* line 245
Cleanup(r) ==
    /\ st[r].pc = "cleanup"
    /\ deleteTemporaryFiles(r, [st[r] EXCEPT !.pc = "done"])
    /\ UNCHANGED cfg

(* --------------------------- specifications ---------------------------- *)

Next ==
    \/ \E r \in Runs : Begin(r)
    \/ \E r \in Runs : ReadOptions(r)
    \/ \E r \in Runs : Validate(r)
    \/ \E r \in Runs : SendPrompt(r)
    \/ \E r \in Runs, u \in Users, c \in {"yes", "no"} : Collect(r, u, c)
    \/ \E r \in Runs, h \in 1..MaxEvents, ok \in BOOLEAN : DeleteSettles(r, h, ok)
    \/ \E r \in Runs : Expire(r)
    \/ \E r \in Runs : AfterConfirm(r)
    \/ \E r \in Runs, o \in FetchOutcomes : DownloadAudio(r, o)
    \/ \E r \in Runs, o \in FetchOutcomes : DownloadImage(r, o)
    \/ \E r \in Runs, ok \in BOOLEAN, left \in BOOLEAN : Exec(r, ok, left)
    \/ \E r \in Runs : Callback(r)
    \/ \E r \in Runs, o \in YoutubeOutcomes : UploadYoutube(r, o)
    \/ \E r \in Runs, ok \in BOOLEAN : UploadSoundcloud(r, ok)
    \/ \E r \in Runs, ok \in BOOLEAN : FeedSettles(r, ok)
    \/ \E r \in Runs : AfterPublish(r)
    \/ \E r \in Runs : BuildForm(r)
    \/ \E r \in Runs, ok \in BOOLEAN : Submit(r, ok)
    \/ \E r \in Runs : Cleanup(r)

Spec == Init /\ [][Next]_vars

\* the tag option alone: any tag string, the run about to read its options
InitTags ==
    /\ \E tagsString \in TagStrings :
          st = [r \in Runs |->
                  IF r = 1
                  THEN [NewRun("alice", TRUE, Attachment(<<"s">> \o Mp3, "audioUrl"),
                               Attachment(<<"c">> \o Png, "imageUrl"),
                               "Test Song", tagsString)
                           EXCEPT !.pc = "options"]
                  ELSE NoRun]
    /\ fs = {}
    /\ cfg \in ConfigInputs

NextTags == \E r \in Runs : ReadOptions(r)

SpecTags == InitTags /\ [][NextTags]_vars

\* an invocation whose requester has pressed Yes and whose prompt is deleted,
\* about to download
ConfirmedRun(user, audio, image, tagsString) ==
    [NewRun(user, TRUE, audio, image, "Test Song", tagsString) EXCEPT
        !.tags = parseTags(tagsString),
        !.promptSent = TRUE,
        !.promptDeleted = TRUE,
        !.deleteCalls = 1,
        !.collector = "ended",
        !.timeout = FALSE,
        !.handlers = <<[user |-> user, customId |-> "yes", pos |-> "done"]>>,
        !.resolved = TRUE,
        !.result = TRUE,
        !.mkdirDone = TRUE,
        !.pc = "downloadAudio"]

\* two confirmed invocations in flight at once: the second one by the same or
\* by another requester, with the same or with other attachment urls
InitConc ==
    /\ \E user2 \in Users, audioUrl2 \in {"audioUrl", "audioUrl2"},
          imageUrl2 \in {"imageUrl", "imageUrl2"} :
          st = [r \in Runs |->
                  IF r = 1
                  THEN ConfirmedRun("alice", Attachment(<<"s">> \o Mp3, "audioUrl"),
                                    Attachment(<<"c">> \o Png, "imageUrl"), <<>>)
                  ELSE ConfirmedRun(user2, Attachment(<<"s">> \o Mp3, audioUrl2),
                                    Attachment(<<"c">> \o Png, imageUrl2), <<>>)]
    /\ fs = {}
    /\ cfg \in ConfigInputs

NextConc ==
    \/ \E r \in Runs, o \in FetchOutcomes : DownloadAudio(r, o)
    \/ \E r \in Runs, o \in FetchOutcomes : DownloadImage(r, o)
    \/ \E r \in Runs, ok \in BOOLEAN, left \in BOOLEAN : Exec(r, ok, left)
    \/ \E r \in Runs : Callback(r)
    \/ \E r \in Runs, o \in YoutubeOutcomes : UploadYoutube(r, o)
    \/ \E r \in Runs, ok \in BOOLEAN : UploadSoundcloud(r, ok)
    \/ \E r \in Runs, ok \in BOOLEAN : FeedSettles(r, ok)
    \/ \E r \in Runs : AfterPublish(r)
    \/ \E r \in Runs : BuildForm(r)
    \/ \E r \in Runs, ok \in BOOLEAN : Submit(r, ok)
    \/ \E r \in Runs : Cleanup(r)

SpecConc == InitConc /\ [][NextConc]_vars

(* ------------------------------- claims -------------------------------- *)

Terminated(s) == s.pc \in {"done", "threw"}

PastConfirmation(s) == s.resolved /\ s.result /\ s.pc # "confirming"

\* C1: every run that got past confirmation ends having called cleanup exactly
\* once, with every temporary file it created given to unlink.
C1_CleanupOnEveryExit ==
    \A r \in Runs :
        (Terminated(st[r]) /\ PastConfirmation(st[r]))
            => /\ st[r].cleanupCalls = 1
               /\ st[r].written \subseteq st[r].unlinked

\* C2: the gate's decision is one of Confirmed, Declined, TimedOut, and once
\* the gate has resolved no later listener or timer changes the decision.
C2_ResolvesOnce ==
    [][\A r \in Runs :
          st[r].resolved =>
              /\ st'[r].resolved
              /\ st'[r].result = st[r].result
              /\ Decision(st'[r]) = Decision(st[r])
              /\ Decision(st[r]) \in {"Confirmed", "Declined", "TimedOut"}]_vars

\* two listeners with different tokens both got through to their resolve()
C2_Witness ==
    \E r \in Runs :
        /\ st[r].resolved
        /\ Len(st[r].handlers) = 2
        /\ st[r].handlers[1].pos = "done"
        /\ st[r].handlers[2].pos = "done"
        /\ st[r].handlers[1].customId # st[r].handlers[2].customId

TokenDecision(customId) == IF customId = "yes" THEN "Confirmed" ELSE "Declined"

GateQuiet(s) ==
    /\ s.collector = "ended"
    /\ \A h \in 1..Len(s.handlers) : s.handlers[h].pos # "deleting"

\* C3: when the requester pressed one token and the prompt deletion failed,
\* the gate still ends resolved with the decision of the pressed token.
C3_DeleteFailureKeepsDecision ==
    \A r \in Runs :
        (/\ Len(st[r].handlers) = 1
         /\ st[r].handlers[1].pos = "failed"
         /\ GateQuiet(st[r]))
            => Decision(st[r]) = TokenDecision(st[r].handlers[1].customId)

\* C4: the outcome is that of the first collected requester event, and a later
\* event triggers no further prompt deletion.
C4_FirstMatchWins ==
    \A r \in Runs :
        /\ (st[r].resolved /\ Len(st[r].handlers) >= 1)
               => Decision(st[r]) = TokenDecision(st[r].handlers[1].customId)
        /\ st[r].deleteCalls <= 1

NoRequesterEvent(s) ==
    \A h \in 1..Len(s.handlers) : s.handlers[h].user # s.user

\* C5: while no interaction of the requester has been collected the gate is
\* Pending as long as the collector runs, whatever other users press, and
\* TimedOut once the collector has ended.
C5_OnlyRequesterResolves ==
    \A r \in Runs :
        NoRequesterEvent(st[r]) =>
            /\ st[r].collector = "active" => Decision(st[r]) = "Pending"
            /\ st[r].collector = "ended" => Decision(st[r]) = "TimedOut"
            /\ Decision(st[r]) \in {"Pending", "TimedOut"}

\* another user pressed a button, the requester did not, and the gate timed out
C5_Witness ==
    \E r \in Runs :
        /\ st[r].othersSeen > 0
        /\ NoRequesterEvent(st[r])
        /\ Decision(st[r]) = "TimedOut"

\* C6: whenever the gate is Confirmed, Declined or TimedOut the prompt has
\* been deleted.
C6_PromptRemovedOnResolution ==
    \A r \in Runs :
        Decision(st[r]) \in {"Confirmed", "Declined", "TimedOut"}
            => st[r].promptDeleted

NoPipelineEffects(s) ==
    /\ ~s.mkdirDone
    /\ s.audioDl = "none"
    /\ s.imageDl = "none"
    /\ s.written = {}
    /\ s.encoderCalls = 0
    /\ s.ytCalls = 0
    /\ s.scCalls = 0
    /\ s.feedCalls = 0
    /\ s.siteCalls = 0
    /\ s.cleanupCalls = 0

\* C7: a TimedOut gate is handled like a Declined one: the run does nothing
\* but report the cancellation and end.
C7_TimedOutAsDeclined ==
    \A r \in Runs :
        Decision(st[r]) \in {"Declined", "TimedOut"} =>
            /\ NoPipelineEffects(st[r])
            /\ st[r].pc \in {"confirming", "done"}
            /\ st[r].pc = "done" => "Cancelled" \in st[r].reports

\* the gate timed out and the run has ended with the cancellation report
C7_Witness ==
    \E r \in Runs :
        /\ Decision(st[r]) = "TimedOut"
        /\ st[r].pc = "done"
        /\ "Cancelled" \in st[r].reports

\* the last four characters of a name (the whole name when it is shorter)
Extension(name) ==
    IF Len(name) <= 4 THEN name ELSE SubSeq(name, Len(name) - 3, Len(name))

InvalidRequest(s) ==
    \/ s.audio.isNull
    \/ s.image.isNull
    \/ s.title = NullString
    \/ Extension(s.audio.name) \notin {Mp3, Wav}
    \/ Extension(s.image.name) \notin {Png, Jpg}

\* C8: a request with a missing audio, image or title or with a disallowed
\* extension never gets a prompt or a collector and causes no download, file
\* write, encoder run, publish or submission; it ends with a rejection report.
C8_ValidationFailsFast ==
    \A r \in Runs :
        (st[r].pc # "off" /\ InvalidRequest(st[r])) =>
            /\ ~st[r].promptSent
            /\ st[r].collector = "none"
            /\ st[r].pc \in {"start", "options", "validate", "done"}
            /\ NoPipelineEffects(st[r])
            /\ st[r].pc = "done" =>
                   st[r].reports \in {{"cannotSend"}, {"missingOption"},
                                      {"badAudio"}, {"badImage"}}

\* a request with a .gif image was rejected for its image
C8_Witness ==
    \E r \in Runs :
        /\ InvalidRequest(st[r])
        /\ Extension(st[r].image.name) = Gif
        /\ st[r].pc = "done"
        /\ st[r].reports = {"badImage"}

\* the entries between the commas, trimmed, the empty ones dropped
ExpectedTags(tagsString) ==
    LET parts == split(tagsString)
        trimmed == [i \in 1..Len(parts) |-> trim(parts[i])]
        NonEmpty(t) == t # <<>>
    IN  SelectSeq(trimmed, NonEmpty)

\* C9: the parsed tag list is the comma-separated entries in order, trimmed,
\* without the empty entries; an empty or blank tag string gives no tags.
C9_TagParsing ==
    \A r \in Runs :
        st[r].pc = "validate" => st[r].tags = ExpectedTags(st[r].tagsString)

AfterDownloads(s) ==
    \/ s.pc \in {"exec", "callback", "youtube", "soundcloud", "afterPublish",
                 "form", "submit", "cleanup"}
    \/ s.encoderCalls > 0
    \/ s.ytCalls > 0
    \/ s.scCalls > 0
    \/ s.siteCalls > 0

\* C10: a download that ended in a network failure or a non-success status
\* has aborted the run, and the stages after the downloads are only entered
\* with both downloads successful.
C10_DownloadsMustSucceed ==
    \A r \in Runs :
        /\ st[r].audioDl \in {"http_error", "network_error"} => st[r].pc = "threw"
        /\ st[r].imageDl \in {"http_error", "network_error"} => st[r].pc = "threw"
        /\ AfterDownloads(st[r]) => st[r].audioDl = "ok" /\ st[r].imageDl = "ok"

\* the temporary files the stage a run is about to execute reads
FilesNeeded(s) ==
    CASE s.pc = "exec" /\ cfg.canUseYoutube -> {audioPath(s), imagePath(s)}
      [] s.pc = "youtube" /\ cfg.canUseYoutube -> {videoPath(s)}
      [] s.pc = "soundcloud" /\ cfg.canUseSoundcloud -> {audioPath(s), imagePath(s)}
      [] s.pc \in {"form", "submit"} -> {audioPath(s), imagePath(s)}
      [] OTHER -> {}

\* C11: with two runs in flight, the temporary files a run is about to read for
\* transcoding, publishing or site submission exist: the other run's cleanup
\* has not deleted them.
C11_FilesPresentWhenRead ==
    \A r \in Runs : FilesNeeded(st[r]) \subseteq fs

\* C12: with the video target disabled no encoder runs, no video upload is
\* made and the video URL is the placeholder, while a run whose downloads
\* succeeded goes on to the audio upload, the feed message, the site submission
\* and cleanup.
C12_DisabledVideoTarget ==
    \A r \in Runs :
        (~cfg.canUseYoutube /\ st[r].pc # "off") =>
            /\ st[r].encoderCalls = 0
            /\ st[r].ytCalls = 0
            /\ ~st[r].err
            /\ videoPath(st[r]) \notin st[r].written
            /\ st[r].youtubeUrl \in {"unset", Placeholder}
            /\ st[r].urls # "undefined"
            /\ st[r].urls = "set" => st[r].youtubeUrl = Placeholder
            /\ (Terminated(st[r]) /\ st[r].imageDl \in {"ok", "http_error"}
                   /\ "uploadThrew" \notin st[r].reports) =>
                   /\ st[r].scCalls = (IF cfg.canUseSoundcloud THEN 1 ELSE 0)
                   /\ st[r].feedCalls = 1
                   /\ st[r].siteCalls = 1
                   /\ st[r].cleanupCalls = 1

\* video disabled, audio target enabled: the run uploaded to the audio
\* platform, submitted to the site and ended
C12_Witness ==
    \E r \in Runs :
        /\ ~cfg.canUseYoutube
        /\ cfg.canUseSoundcloud
        /\ st[r].pc = "done"
        /\ st[r].scCalls = 1
        /\ "uploaded" \in st[r].reports
        /\ st[r].youtubeUrl = Placeholder

\* the video upload was made and did not give a video URL
VideoFailed(s) == s.ytCalls = 1 /\ s.youtubeUrl = Placeholder

\* C13: after a failed video upload (status not "uploaded", or a throw) the
\* failure is reported and the run makes no audio upload, no feed message and
\* no site submission.
C13_VideoFailureIsFatal ==
    \A r \in Runs :
        VideoFailed(st[r]) =>
            /\ st[r].reports \cap {"videoRejected", "uploadThrew"} # {}
            /\ st[r].scCalls = 0
            /\ st[r].feedCalls = 0
            /\ st[r].siteCalls = 0
            /\ st[r].pc \in {"afterPublish", "done"}

\* the video platform rejected the upload, the audio target is enabled, and
\* the run has ended
C13_Witness ==
    \E r \in Runs :
        /\ cfg.canUseSoundcloud
        /\ "videoRejected" \in st[r].reports
        /\ st[r].pc = "done"

\* C14: after an encoder error the run reports it and ends without any video
\* upload, audio upload, feed message or site submission.
C14_EncoderErrorAborts ==
    \A r \in Runs :
        st[r].err =>
            /\ st[r].pc \in {"callback", "done"}
            /\ st[r].pc = "done" => "processingError" \in st[r].reports
            /\ st[r].ytCalls = 0
            /\ st[r].scCalls = 0
            /\ st[r].feedCalls = 0
            /\ st[r].siteCalls = 0

\* ffmpeg failed and the run has ended with the report of it
C14_Witness ==
    \E r \in Runs :
        /\ st[r].err
        /\ st[r].encoderCalls = 1
        /\ st[r].pc = "done"
        /\ "processingError" \in st[r].reports

\* the tags joined by ", ", or N/A when there are none
ExpectedTagsLine(tags) ==
    IF tags = <<>> THEN NotApplicable ELSE join(tags, CommaSpace)

\* C18: the description given to each target that was called ends with the
\* same tags line: the tags joined by ", ", or N/A for an empty tag list.
C18_TagsLine ==
    \A r \in Runs :
        /\ st[r].ytCalls > 0 => st[r].ytTagsLine = ExpectedTagsLine(st[r].tags)
        /\ st[r].scCalls > 0 => st[r].scTagsLine = ExpectedTagsLine(st[r].tags)
        /\ (st[r].ytCalls > 0 /\ st[r].scCalls > 0)
               => st[r].ytTagsLine = st[r].scTagsLine

YoutubeWatchUrl == "youtube.com/watch"

SoundcloudTrackUrl == "soundcloud.com/track"

\* confirmed, both targets enabled, both downloads, the encoder and both
\* uploads succeeded, a non-empty tag string, and the run has ended
SuccessfulRun(s) ==
    /\ cfg.canUseYoutube
    /\ cfg.canUseSoundcloud
    /\ Decision(s) = "Confirmed"
    /\ s.audioDl = "ok"
    /\ s.imageDl = "ok"
    /\ s.encoderCalls = 1
    /\ ~s.err
    /\ s.youtubeUrl = YoutubeWatchUrl
    /\ s.scCalls = 1
    /\ s.soundcloudUrl = SoundcloudTrackUrl
    /\ s.tagsString # <<>>
    /\ s.pc = "done"

SuccessfulRunEffects(s) ==
    /\ s.feedCalls = 1
    /\ s.siteCalls = 1
    /\ s.siteBody.hasTags
    /\ s.siteBody.tags = s.tagsString
    /\ s.siteBody.youtubeUrl = YoutubeWatchUrl
    /\ s.siteBody.soundcloudUrl = SoundcloudTrackUrl
    /\ {audioPath(s), imagePath(s), videoPath(s)} \subseteq s.unlinked
    /\ {audioPath(s), imagePath(s), videoPath(s)} \cap fs = {}

C16_SubmissionFailureStillCleans ==
    \A r \in Runs :
        (st[r].siteCalls = 1 /\ "uploaded" \notin st[r].reports) =>
            /\ "siteError" \in st[r].reports
            /\ st[r].pc \in {"cleanup", "done"}
            /\ st[r].pc = "done" =>
                   /\ st[r].cleanupCalls = 1
                   /\ st[r].written \subseteq st[r].unlinked
                   /\ temporaryFiles(st[r]) \subseteq st[r].unlinked

\* the site submission failed and the run has ended after its cleanup
C16_Witness ==
    \E r \in Runs :
        /\ "siteError" \in st[r].reports
        /\ st[r].pc = "done"
        /\ st[r].cleanupCalls = 1
        /\ st[r].written # {}

\* C17: the feed notification and the site submission are only issued with the
\* result of every enabled target known; the feed notification is issued at
\* most once, and when it failed the run still ends with its site submission,
\* its final report and its cleanup.
C17_FeedAfterPublishNeverFatal ==
    \A r \in Runs :
        /\ (st[r].feedCalls > 0 \/ st[r].siteCalls > 0) =>
               /\ st[r].urls = "set"
               /\ st[r].youtubeUrl =
                      (IF cfg.canUseYoutube THEN YoutubeWatchUrl ELSE Placeholder)
               /\ st[r].soundcloudUrl =
                      (IF cfg.canUseSoundcloud THEN SoundcloudTrackUrl ELSE Placeholder)
               /\ st[r].ytCalls = (IF cfg.canUseYoutube THEN 1 ELSE 0)
               /\ st[r].scCalls = (IF cfg.canUseSoundcloud THEN 1 ELSE 0)
        /\ st[r].feedCalls <= 1
        /\ st[r].feed = "failed" =>
               /\ st[r].pc \in {"afterPublish", "form", "submit", "cleanup", "done"}
               /\ st[r].pc = "done" =>
                      /\ st[r].siteCalls = 1
                      /\ st[r].reports \cap {"uploaded", "siteError"} # {}
                      /\ "uploadThrew" \notin st[r].reports
                      /\ st[r].cleanupCalls = 1

\* the feed notification failed before the site submission was made, and the
\* run has ended with its success report
C17_Witness ==
    \E r \in Runs :
        /\ st[r].feed = "failed"
        /\ st[r].feedCalls = 1
        /\ st[r].pc = "done"
        /\ "uploaded" \in st[r].reports

\* C19: deleteTemporaryFiles has only been called in a run whose publish stage
\* has returned and, when the urls were returned, whose site submission has
\* been made and answered; nothing of the run is left to execute after it.
C19_DeleteAfterLastUse ==
    \A r \in Runs :
        (st[r].cleanupCalls > 0 \/ st[r].unlinked # {}) =>
            /\ st[r].cleanupCalls = 1
            /\ st[r].pc = "done"
            /\ st[r].urls \in {"undefined", "set"}
            /\ st[r].urls = "set" =>
                   /\ st[r].siteCalls = 1
                   /\ st[r].reports \cap {"uploaded", "siteError"} # {}

\* the files were deleted after an answered site submission
C19_Witness ==
    \E r \in Runs :
        /\ st[r].cleanupCalls = 1
        /\ st[r].urls = "set"
        /\ st[r].siteCalls = 1
        /\ st[r].unlinked = temporaryFiles(st[r])

\* C20: once an interaction of the requester has been collected, no end of the
\* collector sends the "took too long" message or resolves the gate: the gate
\* is then only ever resolved by a listener whose prompt deletion succeeded.
C20_TimeoutOnlyWithoutEvent ==
    \A r \in Runs :
        st[r].handlers # <<>> =>
            /\ "tookTooLong" \notin st[r].reports
            /\ Decision(st[r]) # "TimedOut"
            /\ st[r].resolved =>
                   \E h \in 1..Len(st[r].handlers) :
                       /\ st[r].handlers[h].pos = "done"
                       /\ Decision(st[r]) = TokenDecision(st[r].handlers[h].customId)

\* the 60s timer ended the collector while the first listener was still
\* waiting for its prompt deletion
C20_Witness ==
    \E r \in Runs :
        /\ st[r].handlers # <<>>
        /\ st[r].handlers[1].pos = "deleting"
        /\ st[r].collector = "ended"
        /\ ~st[r].resolved

====
